---------------------------- MODULE Spec2Model ----------------------------
(***************************************************************************)
(* Model of backend/server.js: an Express application relaying between a   *)
(* storefront and the Razorpay payment processor.  One request is in       *)
(* flight at a time (the handlers share no mutable state); it travels      *)
(* through the middleware chain registered in the file and then through    *)
(* the handler of its route.                                               *)
(*                                                                         *)
(* JavaScript values are records [t, s, n]: t is the type tag, s the       *)
(* characters of a string, n a number.  Numbers are fixed-point, counted   *)
(* in eighths (n = 8 is the number 1), so that amount * 100 and            *)
(* Math.round are exact, as they are for such doubles in the program.      *)
(* An HMAC-SHA256 digest is the ideal MAC: the tuple of its rendering,     *)
(* its key and its message.                                                *)
(***************************************************************************)
EXTENDS Integers, Sequences, FiniteSets, TLC

VARIABLES env, pc, req, body, res, calls, hmacs, parses, threw, entered

vars == <<env, pc, req, body, res, calls, hmacs, parses, threw, entered>>

-----------------------------------------------------------------------------
(* Bounds *)

MaxIdLen == 2
MaxAmount == 9
MaxClock == 2

-----------------------------------------------------------------------------
(* JavaScript values *)

Undefined == [t |-> "undefined", s |-> <<>>, n |-> 0]
Null == [t |-> "null", s |-> <<>>, n |-> 0]
NaN == [t |-> "NaN", s |-> <<>>, n |-> 0]
Str(s) == [t |-> "string", s |-> s, n |-> 0]
Num(k) == [t |-> "number", s |-> <<>>, n |-> k]

\* ToBoolean(v), the test behind `!v`
Truthy(v) ==
    CASE v.t = "string" -> v.s # <<>>
      [] v.t = "number" -> v.n # 0
      [] OTHER -> FALSE

\* v * 100 (ToNumber of a non-numeric string, and of undefined, is NaN)
Times100(v) ==
    CASE v.t = "number" -> Num(100 * v.n)
      [] v.t = "null" -> Num(0)
      [] v.t = "string" /\ v.s = <<>> -> Num(0)
      [] OTHER -> NaN

MathRoundTruncates(v) ==
    IF v.t = "number"
    THEN Num(8 * (IF v.n >= 0 THEN v.n \div 8 ELSE -((-v.n) \div 8)))
    ELSE v

\* Math.round: the nearest integer, a tie going up
MathRound(v) == IF v.t = "number" THEN Num(8 * ((v.n + 4) \div 8)) ELSE v

-----------------------------------------------------------------------------
(* Strings of the requests *)

Chars == {"a", "|"}

RECURSIVE StringsOfLen(_)
StringsOfLen(n) ==
    IF n = 0 THEN {<<>>}
    ELSE {Append(s, c) : s \in StringsOfLen(n - 1), c \in Chars}

Ids == UNION {StringsOfLen(n) : n \in 1..MaxIdLen}

IdValues == {Undefined, Str(<<>>)} \cup {Str(s) : s \in Ids}

HasBar(s) == \E i \in 1..Len(s) : s[i] = "|"

-----------------------------------------------------------------------------
(* Environment and HMAC *)

KeySecret == Str(<<"k">>)
WebhookSecret == Str(<<"w">>)
OtherSecret == Str(<<"x">>)
Secrets == {KeySecret, WebhookSecret, OtherSecret}

\* crypto.createHmac("sha256", key).update(msg).digest("hex")
HmacHex(key, msg) == Str(<<"hex", key.s, msg>>)

\* the same digest in upper-case hexadecimal, as a client may send it
UpperHex(key, msg) == Str(<<"HEX", key.s, msg>>)

-----------------------------------------------------------------------------
(* Request bodies *)

\* A JSON text: what it denotes, and how it is laid out (two layouts of the
\* same value parse to the same value and are different bytes).
EventNames == {"", "payment.captured", "payment.failed", "refund.created", "order.paid"}
PayloadShapes == {"none", "payment", "refund", "both"}
JsonForms == {"object", "scalar", "null", "malformed", "empty"}

JsonValues ==
    {[form |-> "object", event |-> e, payload |-> p] :
        e \in EventNames, p \in PayloadShapes}
    \cup {[form |-> f, event |-> "", payload |-> "none"] :
        f \in JsonForms \ {"object"}}

Layouts == {"compact", "spaced"}

Bytes(json, layout) == [json |-> json, layout |-> layout]

WebhookBodies == {Bytes(j, l) : j \in JsonValues, l \in Layouts}

\* the same event laid out differently: other bytes
Relaid(bytes) ==
    Bytes(bytes.json, IF bytes.layout = "compact" THEN "spaced" ELSE "compact")

ContentTypes == {"application/json", "text/plain", "none"}

\* JSON.parse throws a SyntaxError on these texts
JsonParseThrows(bytes) == bytes.json.form \in {"malformed", "empty"}

\* JSON.parse(bytes): the value denoted, whatever the layout
JsonParse(bytes) == bytes.json

\* req.body as a middleware leaves it
Unread == [kind |-> "unread", value |-> Bytes([form |-> "empty", event |-> "", payload |-> "none"], "compact")]
Unparsed == [kind |-> "unparsed", value |-> Unread.value]
ParsedObject(v) == [kind |-> "object", value |-> v]
Buffer(bytes) == [kind |-> "buffer", value |-> bytes]

-----------------------------------------------------------------------------
(* Responses *)

Response(status, json) == [status |-> status, body |-> json]

AmountRequired == Response(400, [error |-> "Amount is required"])
CreateOrderFailed == Response(500, [error |-> "Failed to create order"])
MissingPaymentDetails == Response(400, [error |-> "Missing payment details"])
InvalidPaymentSignature ==
    Response(400, [success |-> FALSE, error |-> "Invalid payment signature"])
VerificationFailed == Response(500, [error |-> "Verification failed"])
InvalidWebhookSignature == Response(400, [error |-> "Invalid webhook signature"])
WebhookFailed == Response(500, [error |-> "Webhook processing failed"])
WebhookReceived == Response(200, [received |-> TRUE])
BodyParserRejected == Response(400, [html |-> "SyntaxError"])

PaymentVerified(payment, order) ==
    Response(200, [success |-> TRUE, message |-> "Payment verified successfully",
                   payment_id |-> payment, order_id |-> order])

OrderCreatedResponse(order) ==
    Response(200, [success |-> TRUE, order_id |-> order.id, amount |-> order.amount,
                   currency |-> order.currency, key_id |-> "RAZORPAY_KEY_ID"])

\* what a handler step did: the responses it sent, the HMAC inputs it digested,
\* the JSON.parse calls it made, whether its catch block ran
Outcome(sent, digested, parsed, caught) ==
    [res |-> sent, hmacs |-> digested, parses |-> parsed, threw |-> caught]

-----------------------------------------------------------------------------
(* Middleware: app.use(express.json()), then express.raw on the webhook route *)

\* express.json(): a request whose Content-Type is application/json and that
\* has a body is read and parsed (strict: an object or an array, else the
\* request is rejected with 400); any other request passes with req.body
\* left as the parser's default, which is no Buffer.
ExpressJson(ctype, bytes) ==
    IF ctype # "application/json" \/ bytes.json.form = "empty"
    THEN [next |-> TRUE, body |-> Unparsed, parsed |-> FALSE]
    ELSE IF bytes.json.form # "object"
    THEN [next |-> FALSE, body |-> Unparsed, parsed |-> bytes.json.form = "malformed"]
    ELSE [next |-> TRUE, body |-> ParsedObject(JsonParse(bytes)), parsed |-> TRUE]

\* express.raw({type: "application/json"}): skips a request whose body an
\* earlier parser has read, or that has no body, or of another type; else
\* req.body is a Buffer of the bytes.
ExpressRaw(ctype, bytes, b) ==
    IF b.kind = "object" \/ ctype # "application/json" \/ bytes.json.form = "empty"
    THEN b
    ELSE Buffer(bytes)

-----------------------------------------------------------------------------
(* Route 1: POST /api/create-order *)

INR == Str(<<"INR">>)

AmountMissingOnlyUndefined(amount) == amount.t = "undefined"

\* if (!amount)
AmountMissing(amount) == ~Truthy(amount)

\* const { amount, currency = "INR", receipt } = req.body, and the options
CreateOrderOptions(b, now) ==
    [amount |-> MathRound(Times100(b.amount)),
     currency |-> IF b.currency.t = "undefined" THEN INR ELSE b.currency,
     receipt |-> IF Truthy(b.receipt) THEN b.receipt
                 ELSE Str(<<"receipt_", ToString(now)>>)]

CatchCreateOrderSilent == <<>>

\* the catch block of the handler
CatchCreateOrder == <<CreateOrderFailed>>

-----------------------------------------------------------------------------
(* Route 2: POST /api/verify-payment *)

MissingDetailsIgnoresSignature(o, p, sig) == ~Truthy(o) \/ ~Truthy(p)

\* if (!razorpay_order_id || !razorpay_payment_id || !razorpay_signature)
MissingDetails(o, p, sig) == ~Truthy(o) \/ ~Truthy(p) \/ ~Truthy(sig)

SignedBodyNoSeparator(o, p) == o.s \o p.s

\* const body = razorpay_order_id + "|" + razorpay_payment_id
SignedBody(o, p) == o.s \o <<"|">> \o p.s

IsValidIgnoringCase(expected, provided) ==
    /\ provided.t = "string"
    /\ Len(provided.s) = 3
    /\ Tail(provided.s) = Tail(expected.s)

\* const isValid = expectedSignature === razorpay_signature
IsValid(expected, provided) == expected = provided

VerifyPayment(keySecret, b) ==
    LET o == b.razorpay_order_id
        p == b.razorpay_payment_id
        sig == b.razorpay_signature
    IN  IF MissingDetails(o, p, sig)
        THEN Outcome(<<MissingPaymentDetails>>, <<>>, <<>>, FALSE)
        ELSE IF keySecret.t # "string"
        THEN \* createHmac throws on an undefined key: the catch block
             Outcome(<<VerificationFailed>>, <<>>, <<>>, TRUE)
        ELSE LET expectedSignature == HmacHex(keySecret, SignedBody(o, p))
             IN  IF IsValid(expectedSignature, sig)
                 THEN Outcome(<<PaymentVerified(p, o)>>, <<SignedBody(o, p)>>, <<>>, FALSE)
                 ELSE Outcome(<<InvalidPaymentSignature>>, <<SignedBody(o, p)>>, <<>>, FALSE)

-----------------------------------------------------------------------------
(* Route 3: POST /api/webhook *)

\* event.payload.<entity>.entity.id throws a TypeError when the payload
\* lacks the entity
DispatchThrows(event) ==
    CASE event.form = "null" -> TRUE
      [] event.form # "object" -> FALSE
      [] event.event \in {"payment.captured", "payment.failed"} ->
            event.payload \notin {"payment", "both"}
      [] event.event = "refund.created" -> event.payload \notin {"refund", "both"}
      [] OTHER -> FALSE

Webhook(webhookSecret, signature, b) ==
    IF webhookSecret.t # "string" \/ b.kind # "buffer"
    THEN \* createHmac(undefined key) or update(a value that is no Buffer) throws
         Outcome(<<WebhookFailed>>, <<>>, <<>>, TRUE)
    ELSE LET expectedSignature == HmacHex(webhookSecret, b.value)
         IN  IF signature # expectedSignature
             THEN Outcome(<<InvalidWebhookSignature>>, <<b.value>>, <<>>, FALSE)
             ELSE IF JsonParseThrows(b.value) \/ DispatchThrows(JsonParse(b.value))
             THEN Outcome(<<WebhookFailed>>, <<b.value>>, <<"handler">>, TRUE)
             ELSE Outcome(<<WebhookReceived>>, <<b.value>>, <<"handler">>, FALSE)

-----------------------------------------------------------------------------
(* Requests *)

Amounts ==
    {Undefined, Null, Str(<<"a">>)} \cup {Num(k) : k \in (0 - MaxAmount)..MaxAmount}

Currencies == {Undefined, Str(<<"USD">>)}

Receipts == {Undefined, Str(<<>>), Str(<<"rcpt_1">>)}

CreateOrderBodies ==
    [amount : Amounts, currency : Currencies, receipt : Receipts]

\* signatures a client may submit with the ids o, p
PaymentSignatures(o, p) ==
    {Undefined, Str(<<>>), Str(<<"junk">>)}
    \cup {HmacHex(k, m) : k \in Secrets,
                          m \in {SignedBody(o, p), SignedBody(p, o), o.s \o p.s}}
    \cup {UpperHex(KeySecret, SignedBody(o, p))}

\* signature headers a sender may attach to the bytes
WebhookSignatures(bytes) ==
    {Undefined, Str(<<"junk">>)}
    \cup {HmacHex(k, m) : k \in Secrets, m \in {bytes, Relaid(bytes)}}
    \cup {UpperHex(WebhookSecret, bytes)}

Request(route, ctype, payload, signature) ==
    [route |-> route, ctype |-> ctype, payload |-> payload, signature |-> signature]

NoRequest == Request("none", "none", Unread.value, Undefined)

-----------------------------------------------------------------------------
(* The state machine *)

Init ==
    /\ env \in [RAZORPAY_KEY_SECRET : {Undefined, KeySecret},
                RAZORPAY_WEBHOOK_SECRET : {Undefined, WebhookSecret}]
    /\ pc = "idle"
    /\ req = NoRequest
    /\ body = Unread
    /\ res = <<>>
    /\ calls = <<>>
    /\ hmacs = <<>>
    /\ parses = <<>>
    /\ threw = FALSE
    /\ entered = FALSE

ReceiveCreateOrder ==
    /\ pc = "idle"
    /\ \E b \in CreateOrderBodies :
        req' = Request("create-order", "application/json", b, Undefined)
    /\ pc' = "json"
    /\ UNCHANGED <<env, body, res, calls, hmacs, parses, threw, entered>>

ReceiveVerifyPayment ==
    /\ pc = "idle"
    /\ \E o \in IdValues, p \in IdValues :
        \E sig \in PaymentSignatures(o, p) :
            req' = Request("verify-payment", "application/json",
                           [razorpay_order_id |-> o, razorpay_payment_id |-> p,
                            razorpay_signature |-> sig], Undefined)
    /\ pc' = "json"
    /\ UNCHANGED <<env, body, res, calls, hmacs, parses, threw, entered>>

ReceiveWebhook ==
    /\ pc = "idle"
    /\ \E ctype \in ContentTypes, bytes \in WebhookBodies :
        \E sig \in WebhookSignatures(bytes) :
            req' = Request("webhook", ctype, bytes, sig)
    /\ pc' = "json"
    /\ UNCHANGED <<env, body, res, calls, hmacs, parses, threw, entered>>

\* app.use(express.json()) runs first for every route; the two JSON routes
\* are sent a JSON object, which it parses into req.body
JsonMiddleware ==
    /\ pc = "json"
    /\ IF req.route = "webhook"
       THEN LET r == ExpressJson(req.ctype, req.payload)
            IN  /\ body' = r.body
                /\ parses' = IF r.parsed THEN Append(parses, "express.json") ELSE parses
                /\ pc' = IF r.next THEN "raw" ELSE "done"
                /\ res' = IF r.next THEN res ELSE Append(res, BodyParserRejected)
       ELSE /\ body' = ParsedObject(req.payload)
            /\ parses' = Append(parses, "express.json")
            /\ pc' = "handler"
            /\ res' = res
    /\ UNCHANGED <<env, req, calls, hmacs, threw, entered>>

RawMiddleware ==
    /\ pc = "raw"
    /\ body' = ExpressRaw(req.ctype, req.payload, body)
    /\ pc' = "handler"
    /\ UNCHANGED <<env, req, res, calls, hmacs, parses, threw, entered>>

Finished(o) ==
    /\ res' = res \o o.res
    /\ hmacs' = hmacs \o o.hmacs
    /\ parses' = parses \o o.parses
    /\ threw' = o.threw
    /\ entered' = TRUE
    /\ pc' = "done"

\* the create-order handler up to its await
CreateOrder ==
    /\ pc = "handler"
    /\ req.route = "create-order"
    /\ \E now \in 1..MaxClock :
        IF AmountMissing(body.value.amount)
        THEN /\ Finished(Outcome(<<AmountRequired>>, <<>>, <<>>, FALSE))
             /\ calls' = calls
        ELSE /\ calls' = Append(calls, CreateOrderOptions(body.value, now))
             /\ pc' = "awaiting"
             /\ entered' = TRUE
             /\ UNCHANGED <<res, hmacs, parses, threw>>
    /\ UNCHANGED <<env, req, body>>

\* razorpay.orders.create resolves with the order
OrderResolves ==
    /\ pc = "awaiting"
    /\ LET options == calls[Len(calls)]
           order == [id |-> "order_1", amount |-> options.amount,
                     currency |-> options.currency]
       IN  Finished(Outcome(<<OrderCreatedResponse(order)>>, <<>>, <<>>, FALSE))
    /\ UNCHANGED <<env, req, body, calls>>

\* razorpay.orders.create rejects (network or API error)
OrderRejects ==
    /\ pc = "awaiting"
    /\ Finished(Outcome(CatchCreateOrder, <<>>, <<>>, TRUE))
    /\ UNCHANGED <<env, req, body, calls>>

VerifyPaymentHandler ==
    /\ pc = "handler"
    /\ req.route = "verify-payment"
    /\ Finished(VerifyPayment(env.RAZORPAY_KEY_SECRET, body.value))
    /\ UNCHANGED <<env, req, body, calls>>

WebhookHandler ==
    /\ pc = "handler"
    /\ req.route = "webhook"
    /\ Finished(Webhook(env.RAZORPAY_WEBHOOK_SECRET, req.signature, body))
    /\ UNCHANGED <<env, req, body, calls>>

\* the exchange is over; the server holds nothing of it
Finish ==
    /\ pc = "done"
    /\ pc' = "idle"
    /\ req' = NoRequest
    /\ body' = Unread
    /\ res' = <<>>
    /\ calls' = <<>>
    /\ hmacs' = <<>>
    /\ parses' = <<>>
    /\ threw' = FALSE
    /\ entered' = FALSE
    /\ UNCHANGED env

Next ==
    \/ ReceiveCreateOrder
    \/ ReceiveVerifyPayment
    \/ ReceiveWebhook
    \/ JsonMiddleware
    \/ RawMiddleware
    \/ CreateOrder
    \/ OrderResolves
    \/ OrderRejects
    \/ VerifyPaymentHandler
    \/ WebhookHandler
    \/ Finish

Spec == Init /\ [][Next]_vars

-----------------------------------------------------------------------------
(* Claims *)

WebhookDone == req.route = "webhook" /\ pc = "done" /\ entered

SecretSet == env.RAZORPAY_WEBHOOK_SECRET.t = "string"

SignatureMatches ==
    /\ SecretSet
    /\ req.signature = Str(<<"hex", env.RAZORPAY_WEBHOOK_SECRET.s, req.payload>>)

\* C1: whenever the webhook handler is reached, nothing has JSON-parsed the
\* body, whatever the Content-Type; and once the handler has
\* answered (webhook secret configured), the HMAC was computed over exactly
\* those bytes and only the handler, after the comparison, may have parsed.
C1_RawBytesBeforeComparison ==
    /\ (req.route = "webhook" /\ pc = "handler") =>
          parses = <<>>
    /\ (WebhookDone /\ SecretSet) =>
          (hmacs = <<req.payload>> /\ "express.json" \notin {parses[i] : i \in 1..Len(parses)})

\* C2: a webhook whose signature header is absent or differs from the hex
\* HMAC of the body under the webhook secret is answered 400 "Invalid webhook
\* signature", exactly once, and the handler never parses the event.
C2_InvalidSignatureRejected ==
    (WebhookDone /\ SecretSet /\ ~SignatureMatches) =>
        /\ res = <<[status |-> 400, body |-> [error |-> "Invalid webhook signature"]]>>
        /\ "handler" \notin {parses[i] : i \in 1..Len(parses)}

\* C3: a webhook whose signature is valid is always answered 200
\* {received: true}, whatever its event name and payload.
C3_ValidSignatureAcknowledged ==
    (WebhookDone /\ SignatureMatches) =>
        res = <<[status |-> 200, body |-> [received |-> TRUE]]>>

VerifyDone == req.route = "verify-payment" /\ pc = "done"

AllPresent ==
    /\ Truthy(req.payload.razorpay_order_id)
    /\ Truthy(req.payload.razorpay_payment_id)
    /\ Truthy(req.payload.razorpay_signature)

KeySet == env.RAZORPAY_KEY_SECRET.t = "string"

\* C4: with RAZORPAY_KEY_SECRET configured, a verify-payment request
\* carrying all three fields is answered 200 with the success body echoing
\* the submitted ids exactly when its signature is the lower-case hex
\* HMAC-SHA256 of order_id + "|" + payment_id under that secret, and 400
\* "Invalid payment signature" otherwise; never 500.
C4_VerifyPaymentDecides ==
    (VerifyDone /\ AllPresent /\ KeySet) =>
        LET o == req.payload.razorpay_order_id
            p == req.payload.razorpay_payment_id
            good == Str(<<"hex", <<"k">>, o.s \o <<"|">> \o p.s>>)
        IN  IF req.payload.razorpay_signature = good
            THEN res = <<[status |-> 200,
                          body |-> [success |-> TRUE,
                                    message |-> "Payment verified successfully",
                                    payment_id |-> p, order_id |-> o]]>>
            ELSE res = <<[status |-> 400,
                          body |-> [success |-> FALSE,
                                    error |-> "Invalid payment signature"]]>>

C4_Witness ==
    /\ VerifyDone /\ AllPresent
    /\ res[1].status = 200
    /\ HasBar(req.payload.razorpay_order_id.s)

\* C5: a verify-payment request lacking any of the three fields is answered
\* 400 "Missing payment details" and no HMAC is computed for it.
C5_MissingDetailsNoHmac ==
    /\ (req.route = "verify-payment" /\ ~AllPresent) => hmacs = <<>>
    /\ (VerifyDone /\ ~AllPresent) =>
          res = <<[status |-> 400, body |-> [error |-> "Missing payment details"]]>>

C5_Witness ==
    /\ VerifyDone
    /\ req.payload.razorpay_signature = Undefined
    /\ Truthy(req.payload.razorpay_order_id)
    /\ Truthy(req.payload.razorpay_payment_id)

CreateRoute == req.route = "create-order"

\* C6: a create-order request whose amount is absent or falsy is answered
\* 400 with exactly {error: "Amount is required"}, and the processor is never
\* called for it.
C6_AmountRequired ==
    /\ (CreateRoute /\ ~Truthy(req.payload.amount)) => calls = <<>>
    /\ (CreateRoute /\ pc = "done" /\ ~Truthy(req.payload.amount)) =>
          res = <<[status |-> 400, body |-> [error |-> "Amount is required"]]>>

C6_Witness ==
    /\ CreateRoute /\ pc = "done"
    /\ req.payload.amount = Num(0)

\* C7: whenever an order has been submitted to the processor, the request's
\* amount was a number strictly greater than 0.
C7_OnlyPositiveAmountsSubmitted ==
    (CreateRoute /\ calls # <<>>) =>
        (req.payload.amount.t = "number" /\ req.payload.amount.n > 0)

PositiveAmount == req.payload.amount.t = "number" /\ req.payload.amount.n > 0

\* C8: for an amount > 0 the handler makes a single processor call, whose
\* amount is the integer nearest to amount * 100 (a tie going up), whose
\* currency is the request's ("INR" when unspecified) and whose receipt is
\* the request's (a "receipt_" + time identifier when none is given).
C8_MinorUnitsRounded ==
    (CreateRoute /\ PositiveAmount /\ pc \in {"awaiting", "done"}) =>
        /\ Len(calls) = 1
        /\ calls[1].amount.t = "number"
        /\ calls[1].amount.n % 8 = 0
        /\ 100 * req.payload.amount.n - 4 < calls[1].amount.n
        /\ calls[1].amount.n <= 100 * req.payload.amount.n + 4
        /\ calls[1].currency =
              (IF req.payload.currency = Undefined THEN Str(<<"INR">>)
               ELSE req.payload.currency)
        /\ IF Truthy(req.payload.receipt)
           THEN calls[1].receipt = req.payload.receipt
           ELSE /\ Len(calls[1].receipt.s) = 2
                /\ calls[1].receipt.s[1] = "receipt_"

\* 0.375 * 100 = 37.5: a tie, sent as 38
C8_Witness ==
    /\ CreateRoute /\ pc = "awaiting"
    /\ req.payload.amount = Num(3)
    /\ calls[1].amount = Num(8 * 38)

GenericError ==
    CASE req.route = "create-order" -> "Failed to create order"
      [] req.route = "verify-payment" -> "Verification failed"
      [] OTHER -> "Webhook processing failed"

\* C9: a failure inside a handler is caught there and answered 500 with the
\* handler's generic JSON error; a request whose processing has finished has
\* received exactly one response, one still in process none; and the
\* processor is called at most once per request.
C9_ErrorsCaughtOneResponse ==
    /\ (pc = "done" /\ entered /\ threw) =>
          res = <<[status |-> 500, body |-> [error |-> GenericError]]>>
    /\ pc = "done" => Len(res) = 1
    /\ pc # "done" => res = <<>>
    /\ Len(calls) <= 1

C9_Witness ==
    /\ pc = "done" /\ threw
    /\ CreateRoute
    /\ Len(calls) = 1

Accepts(o, p, sig) ==
    VerifyPayment(env.RAZORPAY_KEY_SECRET,
                  [razorpay_order_id |-> Str(o), razorpay_payment_id |-> Str(p),
                   razorpay_signature |-> sig]).res[1].status = 200

Accepted == VerifyDone /\ AllPresent /\ res[1].status = 200

\* C10 as stated: a signature accepted for one pair of non-empty ids is
\* accepted for no other pair, ids containing "|" included.
C10_SignatureBoundToPair ==
    Accepted =>
        \A o2 \in Ids, p2 \in Ids :
            <<o2, p2>> # <<req.payload.razorpay_order_id.s, req.payload.razorpay_payment_id.s>>
                => ~Accepts(o2, p2, req.payload.razorpay_signature)

\* C10 amended: a signature accepted for one pair of non-empty ids is
\* accepted for no other pair, provided neither order id contains "|", or
\* neither payment id does.
C10_SignatureBoundToPairNoBar ==
    Accepted =>
        LET o1 == req.payload.razorpay_order_id.s
            p1 == req.payload.razorpay_payment_id.s
        IN  \A o2 \in Ids, p2 \in Ids :
                /\ <<o2, p2>> # <<o1, p1>>
                /\ \/ ~HasBar(o1) /\ ~HasBar(o2)
                   \/ ~HasBar(p1) /\ ~HasBar(p2)
                => ~Accepts(o2, p2, req.payload.razorpay_signature)

C10_Witness ==
    /\ Accepted
    /\ ~HasBar(req.payload.razorpay_order_id.s)
    /\ HasBar(req.payload.razorpay_payment_id.s)
    /\ Len(req.payload.razorpay_order_id.s) < Len(req.payload.razorpay_payment_id.s)

=============================================================================
